---- MODULE Spec2Model ----
(***************************************************************************)
(* State machine of the ChatSpeed client script (src/script.js): the       *)
(* observable state store (StateManager), the notification queue           *)
(* (NotificationManager), the reconnecting socket client and its inbound   *)
(* messages (WebSocketManager), the optimistic post pipeline and paging    *)
(* (PostManager), and the theme, file selection and typing indicator       *)
(* (ThemeManager, MediaManager, ChatManager).                              *)
(* Variables whose name starts with g are history (ghost) variables: they  *)
(* record what the callers did, never what the code computed, and no       *)
(* modelled code reads them.                                               *)
(***************************************************************************)
EXTENDS Integers, Sequences, FiniteSets, TLC

\* ------------------------------------------------------------------ bounds
MaxCalls == 2          \* store calls listeners make during one notification
MaxNotifs == 1         \* notifications tracked at once in the queue's own runs
MaxTimers == 2         \* timeouts pending at once in the queue's own runs
MaxShows == 2          \* show() calls in a run with several notifications
MaxPending == 3        \* timeouts pending at once in such a run
MaxSockets == 6        \* WebSocket objects created in one run
MaxAppConnects == 2    \* connect() calls made by the application in one run
MaxCreates == 3        \* createPost() calls in one run
MaxRequests == 2       \* reaction, save and story requests sent in one run
MaxLoads == 4          \* loadMore() calls that start a load in one run
MaxMessages == 3       \* inbound frames delivered in one run
MaxBatch == 2          \* files in one selection or drop
MaxTyping == 4         \* sendTypingIndicator() calls in one run
MaxWarnings == 4       \* notifications the file checks show in one run

\* ------------------------------------------------------- universe of inputs
Keys == {"theme"}
Null == "null"
Values == {"light", "dark"}
CBs == {1, 2, 3}       \* identities of listener callbacks
Empty == 0             \* a deleted entry of a Set's entry list

VARIABLES
    state,        \* StateManager.state: key -> value
    listeners,    \* StateManager.listeners: Map key -> Set (entry list)
    stack,        \* activations of notifyListeners (forEach in progress)
    calls,        \* store calls made by listeners since the stack was empty
    gOrder,       \* ghost: per key, the subscribed callbacks, oldest first
    gLast         \* ghost: per key, the value of the latest setState call

VARIABLES
    notifications,  \* NotificationManager.notifications: tracked {id, element}
    container,      \* ids of the toasts that are children of toastContainer
    timers,         \* pending setTimeout callbacks, in creation order
    gNotif,         \* ghost: id -> what show() was asked and the time left
    gShown,         \* ghost: show() calls counted in the runs that bound them
    gNoop           \* ghost: the queue's user called remove(id) last, with an
                    \* id that was not tracked

VARIABLES
    ws,                \* WebSocketManager.ws: the current socket, 0 for null
    sockets,           \* live WebSocket objects: id -> readyState
    reconnectAttempts, \* WebSocketManager.reconnectAttempts
    heartbeatInterval, \* WebSocketManager.heartbeatInterval, 0 for null
    intervals,         \* handles of the setInterval timers that are active
    wire,              \* type of the last frame handed to a socket's send()
    created,           \* number of WebSocket objects created so far
    appConnects,       \* number of connect() calls made by the application
    gFails,            \* ghost: close events since the last open
    gResetFrom,        \* ghost: whether the last open reset a positive
                       \* reconnectAttempts (1) or not (0); -1 before any open
    gDisc,             \* ghost: how far the close that a disconnect() call
                       \* causes has come: called, closed, reconnecting
    gSend              \* ghost: the last send() call of the application: its
                       \* frame, the client's state then, whether it raised

VARIABLES
    posts,          \* PostManager.posts: the local records, newest first
    uuids,          \* number of post ids generateUUID() has produced
    initialLoaded,  \* whether loadInitialPosts() has run
    liked,          \* ids of the posts whose reaction button is 'active'
    stories,        \* StoryManager.stories: ids of the stories, newest first
    gPosts,         \* ghost: id of a created post -> outcome of its request
    gReacts,        \* ghost: per pending reaction request, oldest first, the
                    \* post and its likes and button before the toggle
    gAnswer,        \* ghost: outcome of the request answered last
    gRequests,      \* ghost: reaction, save and story requests sent so far
    gRemoved        \* ghost: ids of the records other tasks took out of posts

VARIABLES
    currentTheme,   \* ThemeManager.currentTheme; Null until it is constructed
    storage,        \* localStorage: the entry of CONFIG.THEME_STORAGE_KEY
    gTheme          \* ghost: the themes that were current before each of the
                    \* latest toggles in a row (two at most)

VARIABLES
    onlineUsers,    \* the Set held by the store under 'onlineUsers'
    typingUsers,    \* the Set held by the store under 'typingUsers'
    uncaught,       \* whether the message handler that ran last ended with
                    \* an exception nothing caught
    gPresence,      \* ghost: user -> type of its last presence message and
                    \* of its last typing message
    gInbound,       \* ghost: the kind of inbound frame handled last
    gMsgs           \* ghost: inbound frames handled so far

VARIABLES
    selectedFiles,  \* MediaManager.selectedFiles
    gBatch          \* ghost: the files given to processFiles last

VARIABLES
    currentPage,    \* PostManager.currentPage
    isLoading,      \* PostManager.isLoading
    hasMore,        \* PostManager.hasMore
    gLoads          \* ghost: loadMore() calls that started a load, and how
                    \* many of them succeeded and failed

VARIABLES
    typingTimeouts, \* ChatManager.typingTimeouts: user -> timeout handle
    handles,        \* number of handles setTimeout has returned to it
    gTyping         \* ghost: user -> the time since the last call for it
                    \* (up to TYPING_TIMEOUT) and the typing_stop frames
                    \* issued for it since

storeVars == <<state, listeners, stack, calls, gOrder, gLast>>
notifVars == <<notifications, container, timers, gNotif, gShown, gNoop>>
wsVars == <<ws, sockets, reconnectAttempts, heartbeatInterval, intervals,
            wire, created, appConnects, gFails, gResetFrom, gDisc, gSend>>
postVars == <<posts, uuids, initialLoaded, liked, stories, gPosts, gReacts,
              gAnswer, gRequests, gRemoved>>
themeVars == <<currentTheme, storage, gTheme>>
presenceVars == <<onlineUsers, typingUsers, uncaught, gPresence, gInbound,
                  gMsgs>>
mediaVars == <<selectedFiles, gBatch>>
loadVars == <<currentPage, isLoading, hasMore, gLoads>>
chatVars == <<typingTimeouts, handles, gTyping>>
appVars == <<themeVars, presenceVars, mediaVars, loadVars, chatVars>>
vars == <<storeVars, notifVars, wsVars, postVars, appVars>>

\* ------------------------------------------------------------ JS Set model
Range(s) == {s[i] : i \in DOMAIN s}

SetHas(s, x) == \E i \in DOMAIN s : s[i] = x

SetAddFront(s, x) == IF SetHas(s, x) THEN s ELSE <<x>> \o s

\* Set.prototype.add: appends unless present (insertion order is kept).
SetAdd(s, x) == IF SetHas(s, x) THEN s ELSE Append(s, x)

\* Set.prototype.delete: the entry becomes empty; a running forEach skips it.
SetDelete(s, x) == [i \in DOMAIN s |-> IF s[i] = x THEN Empty ELSE s[i]]

IsLive(x) == x # Empty

\* The entry list without its empty entries (what a new iteration sees).
Compact(s) == SelectSeq(s, IsLive)

Count(s, x) == Cardinality({i \in DOMAIN s : s[i] = x})

\* ------------------------------------------------------------ StateManager
NoValue == "none"

\* No listener is running in an activation.
Idle == [cb |-> 0]

StoreInit ==
    /\ state = [k \in Keys |-> IF k = "theme" THEN "light" ELSE Null]
    /\ listeners = [k \in {} |-> <<>>]
    /\ stack = <<>>
    /\ calls = 0
    /\ gOrder = [k \in Keys |-> <<>>]
    /\ gLast = [k \in Keys |-> NoValue]

Top == stack[Len(stack)]

\* A call into the store is made by the application (no notification in
\* progress) or by the listener that is running.
CanCall == IF stack = <<>> THEN TRUE ELSE Top.call # Idle /\ calls < MaxCalls

Called == IF stack = <<>> THEN 0 ELSE calls + 1

Iterating(stk, k) == \E i \in DOMAIN stk : stk[i].key = k

\* Empty entries are dropped from a Set no iteration is running over.
Normalize(ls, stk) ==
    [k \in DOMAIN ls |-> IF Iterating(stk, k) THEN ls[k] ELSE Compact(ls[k])]

getState(st, key) == st[key]

\* subscribe(key, callback)
subscribe(ls, key, cb) ==
    LET withKey == IF key \in DOMAIN ls THEN ls
                   ELSE [k \in DOMAIN ls \cup {key} |->
                            IF k = key THEN <<>> ELSE ls[k]]
    IN [withKey EXCEPT ![key] = SetAdd(@, cb)]

unsubscribeInverted(ls, key, cb) ==
    IF key \notin DOMAIN ls THEN [ls EXCEPT ![key] = SetDelete(@, cb)] ELSE ls

\* unsubscribe(key, callback)
unsubscribe(ls, key, cb) ==
    IF key \in DOMAIN ls THEN [ls EXCEPT ![key] = SetDelete(@, cb)] ELSE ls

\* setState, lines 34-35: the value read before the write, and the write.
setStateOld(st, key) == st[key]
setStateStore(st, key, value) == [st EXCEPT ![key] = value]

notifyFrameSwapped(key, newValue, oldValue) ==
    [key |-> key, newValue |-> oldValue, oldValue |-> newValue,
     idx |-> 0, call |-> Idle]

\* notifyListeners(key, newValue, oldValue): the activation of the forEach.
notifyFrame(key, newValue, oldValue) ==
    [key |-> key, newValue |-> newValue, oldValue |-> oldValue,
     idx |-> 0, call |-> Idle]

\* The entry list the forEach of an activation walks.
frameEntries(ls, f) == ls[f.key]

Subscribe(k, cb) ==
    /\ CanCall
    /\ listeners' = Normalize(subscribe(listeners, k, cb), stack)
    /\ stack' = stack
    /\ calls' = Called
    /\ gOrder' = [gOrder EXCEPT ![k] =
                    IF cb \in Range(@) THEN @ ELSE Append(@, cb)]
    /\ UNCHANGED <<state, gLast, notifVars, wsVars, postVars, appVars>>

Unsubscribe(k, cb) ==
    /\ CanCall
    /\ listeners' = Normalize(unsubscribe(listeners, k, cb), stack)
    /\ stack' = [i \in DOMAIN stack |->
                    IF stack[i].key = k
                    THEN [stack[i] EXCEPT !.gStable = @ \ {cb}]
                    ELSE stack[i]]
    /\ calls' = Called
    /\ gOrder' = [gOrder EXCEPT ![k] =
                    SelectSeq(@, LAMBDA x : x # cb)]
    /\ UNCHANGED <<state, gLast, notifVars, wsVars, postVars, appVars>>

SetState(k, v) ==
    /\ CanCall
    /\ LET oldValue == setStateOld(state, k)
           marked == [i \in DOMAIN stack |->
                        IF stack[i].key = k
                        THEN [stack[i] EXCEPT !.gNested = TRUE]
                        ELSE stack[i]]
           ghost == [gNew |-> v, gPrev |-> state[k],
                     gStart |-> Range(gOrder[k]),
                     gStable |-> Range(gOrder[k]), gInvoked |-> <<>>,
                     gNested |-> FALSE, gWasSub |-> TRUE, gFresh |-> TRUE]
       IN /\ state' = setStateStore(state, k, v)
          /\ stack' = IF k \in DOMAIN listeners
                      THEN Append(marked, notifyFrame(k, v, oldValue) @@ ghost)
                      ELSE marked
    /\ calls' = Called
    /\ gLast' = [gLast EXCEPT ![k] = v]
    /\ UNCHANGED <<listeners, gOrder, notifVars, wsVars, postVars, appVars>>

\* The call callback(newValue, oldValue) of line 59, as the listener sees it:
\* its arguments and what getState(key) returns when it starts.
listenerCall(st, f, cb) ==
    [cb |-> cb, newValue |-> f.newValue, oldValue |-> f.oldValue,
     seen |-> getState(st, f.key)]

\* One iteration of the forEach of notifyListeners: the next entry of the
\* Set is visited and, unless it was deleted, the callback is called.
NotifyStep ==
    /\ stack # <<>>
    /\ Top.call = Idle
    /\ Top.idx < Len(frameEntries(listeners, Top))
    /\ LET f == Top
           cb == frameEntries(listeners, f)[f.idx + 1]
       IN IF cb = Empty
          THEN stack' = [stack EXCEPT ![Len(stack)].idx = f.idx + 1]
          ELSE stack' = [stack EXCEPT ![Len(stack)] =
                           [f EXCEPT !.idx = f.idx + 1,
                                     !.call = listenerCall(state, f, cb),
                                     !.gInvoked = Append(@, cb),
                                     !.gWasSub = cb \in Range(gOrder[f.key]),
                                     !.gFresh = ~f.gNested]]
    /\ UNCHANGED <<state, listeners, calls, gOrder, gLast, notifVars, wsVars, postVars, appVars>>

\* The running listener returns to the forEach.
ListenerReturn ==
    /\ stack # <<>>
    /\ Top.call # Idle
    /\ stack' = [stack EXCEPT ![Len(stack)].call = Idle]
    /\ UNCHANGED <<state, listeners, calls, gOrder, gLast, notifVars, wsVars, postVars, appVars>>

FrameDone(f) == f.call = Idle /\ f.idx = Len(frameEntries(listeners, f))

\* The forEach has visited every entry: notifyListeners and setState return.
NotifyReturn ==
    /\ stack # <<>>
    /\ FrameDone(Top)
    /\ stack' = SubSeq(stack, 1, Len(stack) - 1)
    /\ listeners' = Normalize(listeners, stack')
    /\ calls' = IF stack' = <<>> THEN 0 ELSE calls
    /\ UNCHANGED <<state, gOrder, gLast, notifVars, wsVars, postVars, appVars>>

\* The running listener throws.  Nothing in notifyListeners or setState
\* catches: the forEach is abandoned and the exception leaves setState, into
\* the listener that called it if there is one (which may catch it, and go
\* on, or not, and throw in its turn).
ListenerThrows ==
    /\ stack # <<>>
    /\ Top.call # Idle
    /\ stack' = SubSeq(stack, 1, Len(stack) - 1)
    /\ listeners' = Normalize(listeners, stack')
    /\ calls' = IF stack' = <<>> THEN 0 ELSE calls
    /\ UNCHANGED <<state, gOrder, gLast, notifVars, wsVars, postVars, appVars>>

StoreNext ==
    \/ \E k \in Keys, cb \in CBs : Subscribe(k, cb)
    \/ \E k \in Keys, cb \in CBs : Unsubscribe(k, cb)
    \/ \E k \in Keys, v \in Values : SetState(k, v)
    \/ NotifyStep
    \/ ListenerReturn
    \/ NotifyReturn

\* The store with listeners that may throw.
StoreThrowNext == StoreNext \/ ListenerThrows

\* ------------------------------------------------- StateManager: claims
IsPrefix(a, b) == Len(a) <= Len(b) /\ SubSeq(b, 1, Len(a)) = a

Restrict(s, S) == SelectSeq(s, LAMBDA x : x \in S)

\* C1: after any sequence of setState(k, .) calls getState(k) returns the
\* value of the latest call, and a callback that stays subscribed to k is
\* invoked exactly once per setState call, with (newValue, oldValue) where
\* oldValue is the value stored just before that call.
C1_LastWriteAndExactlyOnce ==
    /\ \A k \in Keys :
          (stack = <<>> /\ gLast[k] # NoValue) => getState(state, k) = gLast[k]
    /\ \A i \in DOMAIN stack :
          LET f == stack[i]
          IN /\ f.call # Idle =>
                   f.call.newValue = f.gNew /\ f.call.oldValue = f.gPrev
             /\ \A cb \in f.gStable : Count(f.gInvoked, cb) <= 1
             /\ FrameDone(f) =>
                   \A cb \in f.gStable : Count(f.gInvoked, cb) = 1

\* A second or later setState(k, v) with v equal to the stored value has
\* notified two subscribers and is about to return.
C1_Witness ==
    /\ stack # <<>>
    /\ FrameDone(Top)
    /\ Cardinality(Top.gStable) >= 2
    /\ Top.gPrev = "dark" /\ Top.gNew = "dark"

\* C6: a callback is never invoked for k after unsubscribe(k, cb), also when
\* the unsubscribe is made by another listener during a notification of k
\* that has not reached cb yet.
C6_NoCallAfterUnsubscribe ==
    \A i \in DOMAIN stack : stack[i].gWasSub

\* A notification has ended in which a listener unsubscribed a callback
\* that was subscribed at its start and that was never invoked in it.
C6_Witness ==
    /\ stack # <<>>
    /\ FrameDone(Top)
    /\ Len(Top.gInvoked) >= 1
    /\ \E cb \in Top.gStart :
          /\ cb \notin Range(gOrder[Top.key])
          /\ cb \notin Range(Top.gInvoked)

\* C7: setState(k, v) stores v, then invokes the subscribers of k in the
\* order in which they subscribed, all of them before it returns; a listener
\* reading getState(k), with no nested setState(k, .) before it, sees v.
C7_StoreThenNotifyInOrder ==
    \A i \in DOMAIN stack :
        LET f == stack[i]
            invoked == Restrict(f.gInvoked, f.gStable)
            subscribed == Restrict(gOrder[f.key], f.gStable)
        IN /\ IsPrefix(invoked, subscribed)
           /\ FrameDone(f) => invoked = subscribed
           /\ (f.call # Idle /\ f.gFresh) => f.call.seen = f.gNew

\* The third of three subscribers is running for a setState that changed
\* the value, with no nested setState before it.
C7_Witness ==
    /\ stack # <<>>
    /\ Top.call # Idle
    /\ Top.gFresh
    /\ Top.gStable = CBs
    /\ Len(Top.gInvoked) = 3
    /\ Top.gNew # Top.gPrev

\* C19: every listener invoked for a setState(k, v) call receives the pair
\* (v, old) of that call, and when it receives it the store's value of k is
\* v, also when a listener has called setState(k, .) during the
\* notification.
C19_AtomicNotification ==
    \A i \in DOMAIN stack :
        LET f == stack[i]
        IN f.call # Idle =>
              /\ f.call.newValue = f.gNew
              /\ f.call.oldValue = f.gPrev
              /\ f.call.seen = f.gNew

\* C20: when a listener throws while it is notified of setState(k, v), the
\* subscribers of k that the notification has not reached yet are invoked
\* for that update all the same: the notification does not end with a
\* subscriber left out.
C20_ThrowDoesNotSkip ==
    [][(Len(stack') < Len(stack) /\ Top.call # Idle) =>
          \A cb \in Top.gStable : cb \in Range(Top.gInvoked)
      ]_vars

\* ------------------------------------------------------------------ timers
\* A pending timeout: the callback it runs (kind, arg) and the milliseconds
\* left before it is due.  Timeouts that are due at the same instant run in
\* the order in which they were created.
Timer(kind, arg, delay) == [kind |-> kind, arg |-> arg, remaining |-> delay]

TimerDue(tm, i) ==
    /\ tm[i].remaining = 0
    /\ \A j \in 1..(i - 1) : tm[j].remaining # 0

DropTimer(tm, i) == SubSeq(tm, 1, i - 1) \o SubSeq(tm, i + 1, Len(tm))

SeqMin(S) == CHOOSE x \in S : \A y \in S : x <= y

\* ----------------------------------------------------- NotificationManager
NOTIFICATION_TIMEOUT == 5000
REMOVE_TRANSITION == 300

NotifInit ==
    /\ notifications = <<>>
    /\ container = {}
    /\ timers = <<>>
    /\ gNotif = [i \in {} |-> 0]
    /\ gShown = 0
    /\ gNoop = FALSE

NotifIds(ns) == {ns[i].id : i \in DOMAIN ns}

\* The notification ids that pending timeouts hold.
TimerArgs(tm) ==
    {tm[i].arg : i \in {j \in DOMAIN tm :
                            tm[j].kind \in {"autoRemove", "removal"}}}

\* generateUUID(): an id that nothing in the program holds.
generateUUID(ns, tm) ==
    SeqMin({i \in 1..(Len(ns) + Len(tm) + 1) :
              i \notin NotifIds(ns) \cup TimerArgs(tm)})

\* show(), line 231: the notification is tracked.
showTrack(ns, id, type) == Append(ns, [id |-> id, type |-> type])

showScheduleDefault(tm, id, duration) ==
    IF duration > 0
    THEN Append(tm, Timer("autoRemove", id, NOTIFICATION_TIMEOUT))
    ELSE tm

showScheduleAlways(tm, id, duration) ==
    Append(tm, Timer("autoRemove", id, IF duration > 0 THEN duration ELSE 0))

\* show(), lines 237-239: the automatic removal is scheduled.
showSchedule(tm, id, duration) ==
    IF duration > 0 THEN Append(tm, Timer("autoRemove", id, duration)) ELSE tm

\* remove(id), lines 272-281: a tracked notification starts its removal
\* transition; an id that is not tracked changes nothing.
remove(ns, tm, id) ==
    IF id \in NotifIds(ns)
    THEN Append(tm, Timer("removal", id, REMOVE_TRANSITION))
    ELSE tm

removalFilterFirst(ns, id) == IF ns = <<>> THEN ns ELSE Tail(ns)

\* The callback of lines 275-280: the toast leaves the container and the
\* tracked list.
removalFilter(ns, id) == SelectSeq(ns, LAMBDA n : n.id # id)

clearFirst(ns, tm, i) == IF ns = <<>> THEN tm ELSE remove(ns, tm, ns[1].id)

\* clear(): remove(n.id) for every tracked notification, in list order.
RECURSIVE clear(_, _, _)
clear(ns, tm, i) ==
    IF i > Len(ns) THEN tm
    ELSE clear(ns, remove(ns, tm, ns[i].id), i + 1)

\* Ghost bookkeeping: what show() was asked, the time left until duration
\* plus the removal transition has elapsed, whether somebody other than the
\* automatic removal has asked for the removal, the time left until the
\* removal transition that clear() started has elapsed (-1: not cleared),
\* and whether time has passed since show().
GhostShown(g, id, duration) ==
    [i \in DOMAIN g \cup {id} |->
        IF i = id
        THEN [duration |-> duration,
              left |-> IF duration > 0 THEN duration + REMOVE_TRANSITION ELSE 0,
              dismissed |-> FALSE, cleared |-> -1, aged |-> FALSE]
        ELSE g[i]]

GhostDismissed(g, ids) ==
    [i \in DOMAIN g |-> IF i \in ids THEN [g[i] EXCEPT !.dismissed = TRUE]
                        ELSE g[i]]

GhostCleared(g, ids) ==
    [i \in DOMAIN g |->
        IF i \in ids /\ g[i].cleared = -1
        THEN [g[i] EXCEPT !.cleared = REMOVE_TRANSITION]
        ELSE g[i]]

\* The ghost forgets an id once nothing in the program holds it any more.
GhostKeep(g, ns, tm) ==
    [i \in {j \in DOMAIN g : j \in NotifIds(ns) \cup TimerArgs(tm)} |-> g[i]]

\* show(message, type, duration), with room for it in the model.
ShowWithin(type, duration, maxNotifs, maxTimers) ==
    /\ Len(notifications) < maxNotifs
    /\ Len(timers) < maxTimers
    /\ LET id == generateUUID(notifications, timers)
       IN /\ notifications' = showTrack(notifications, id, type)
          /\ container' = container \cup {id}
          /\ timers' = showSchedule(timers, id, duration)
          /\ gNotif' = GhostShown(GhostKeep(gNotif, notifications, timers),
                                  id, duration)
    /\ gNoop' = FALSE
    /\ UNCHANGED <<storeVars, wsVars, postVars, appVars>>

Show(type, duration) ==
    ShowWithin(type, duration, MaxNotifs, MaxTimers) /\ UNCHANGED gShown

\* show() in a run that makes a bounded number of show() calls.
ShowCounted(type, duration) ==
    /\ gShown < MaxShows
    /\ ShowWithin(type, duration, MaxShows, MaxPending)
    /\ gShown' = gShown + 1

\* The close button of a toast, or any other caller of remove(id).
RemoveWithin(id, maxTimers) ==
    /\ Len(timers) < maxTimers
    /\ timers' = remove(notifications, timers, id)
    /\ gNotif' = GhostDismissed(GhostKeep(gNotif, notifications, timers), {id})
    /\ gNoop' = (id \notin NotifIds(notifications))
    /\ UNCHANGED <<notifications, container, gShown, storeVars, wsVars,
                   postVars, appVars>>

Remove(id) == RemoveWithin(id, MaxTimers)

\* clear(), with room in the model for the timeouts it creates.
ClearWithin(maxTimers) ==
    /\ Len(timers) + Len(notifications) <= maxTimers
    /\ timers' = clear(notifications, timers, 1)
    /\ gNotif' = GhostCleared(
                    GhostDismissed(GhostKeep(gNotif, notifications, timers),
                                   NotifIds(notifications)),
                    NotifIds(notifications))
    /\ gNoop' = FALSE
    /\ UNCHANGED <<notifications, container, gShown, storeVars, wsVars,
                   postVars, appVars>>

Clear == ClearWithin(MaxTimers)

\* The timeout of line 238 runs: this.remove(id).
AutoRemoveFires ==
    \E i \in DOMAIN timers :
        /\ TimerDue(timers, i)
        /\ timers[i].kind = "autoRemove"
        /\ timers' = remove(notifications, DropTimer(timers, i), timers[i].arg)
        /\ UNCHANGED <<notifications, container, gNotif, gShown, gNoop, storeVars, wsVars, postVars, appVars>>

\* The timeout of lines 275-280 runs.
RemovalFires ==
    \E i \in DOMAIN timers :
        /\ TimerDue(timers, i)
        /\ timers[i].kind = "removal"
        /\ timers' = DropTimer(timers, i)
        /\ container' = container \ {timers[i].arg}
        /\ notifications' = removalFilter(notifications, timers[i].arg)
        /\ UNCHANGED <<gNotif, gShown, gNoop, storeVars, wsVars, postVars, appVars>>

\* Time passes, up to the next instant at which a timeout is due (or at
\* which a ghost deadline is reached); a due timeout runs before time moves.
Waits == {timers[i].remaining : i \in DOMAIN timers}
             \cup {gNotif[i].left : i \in {j \in DOMAIN gNotif : gNotif[j].left > 0}}
             \cup {gNotif[i].cleared :
                      i \in {j \in DOMAIN gNotif : gNotif[j].cleared > 0}}

Tick ==
    /\ Waits # {}
    /\ 0 \notin Waits
    /\ LET d == SeqMin(Waits)
           left == [i \in DOMAIN gNotif |->
                      [gNotif[i] EXCEPT
                          !.left = IF @ > d THEN @ - d ELSE 0,
                          !.cleared = IF @ > d THEN @ - d
                                      ELSE IF @ = -1 THEN -1 ELSE 0,
                          !.aged = TRUE]]
       IN /\ timers' = [i \in DOMAIN timers |->
                          [timers[i] EXCEPT !.remaining = @ - d]]
          /\ gNotif' = GhostKeep(left, notifications, timers')
    /\ UNCHANGED <<notifications, container, gShown, gNoop, storeVars, wsVars, postVars, appVars>>

Durations == {-1, 0, 600, 900}

NotifNext ==
    \/ \E t \in {"info"}, d \in Durations : Show(t, d)
    \/ \E id \in 1..(MaxNotifs + 1) : Remove(id)
    \/ Clear
    \/ AutoRemoveFires
    \/ RemovalFires
    \/ Tick

\* The queue with several notifications at once: persistent ones, and ones
\* that expire after 600 ms.
ToastDurations == {-1, 0, 600}

ToastsNext ==
    \/ \E t \in {"info"}, d \in ToastDurations : ShowCounted(t, d)
    \/ \E id \in 1..(MaxShows + 1) : RemoveWithin(id, MaxPending)
    \/ ClearWithin(MaxPending)
    \/ AutoRemoveFires
    \/ RemovalFires
    \/ Tick

\* ------------------------------------------ NotificationManager: claims
NoTimerDue == \A i \in DOMAIN timers : timers[i].remaining > 0

Tracked(id) == id \in NotifIds(notifications)

\* C5: a notification shown with duration T > 0 is tracked from show() on
\* and, unless it is dismissed, for as long as less than T has elapsed; it
\* is not tracked once T plus the 300 ms removal transition has elapsed.
C5_TrackedUntilExpiry ==
    \A id \in DOMAIN gNotif :
        gNotif[id].duration > 0 =>
            /\ (~gNotif[id].dismissed /\ gNotif[id].left > REMOVE_TRANSITION)
                  => Tracked(id)
            /\ (gNotif[id].left = 0 /\ NoTimerDue) => ~Tracked(id)

\* A notification that nobody dismissed has left the tracked list, T plus
\* the removal transition after show().
C5_Witness ==
    \E id \in DOMAIN gNotif :
        /\ gNotif[id].duration > 0
        /\ ~gNotif[id].dismissed
        /\ gNotif[id].left = 0
        /\ NoTimerDue
        /\ ~Tracked(id)

\* C16: remove(id) with an id that is not tracked changes nothing; when it
\* is called several times for a tracked id during the removal transition
\* the notification leaves the tracked list by a step that takes out
\* nothing else, and it is not tracked again while a timeout of those calls
\* is still pending; a notification leaves the list only if its removal
\* was asked for (by remove, clear or its own expiry).
C16_RemoveIdempotent ==
    [][/\ (gNoop' /\ ~gNoop) =>
             /\ notifications' = notifications
             /\ container' = container
             /\ timers' = timers
       /\ \A id \in NotifIds(notifications) \ NotifIds(notifications') :
             /\ notifications' = SelectSeq(notifications, LAMBDA n : n.id # id)
             /\ id \in DOMAIN gNotif
             /\ \/ gNotif[id].dismissed
                \/ /\ gNotif[id].duration > 0
                   /\ gNotif[id].left <= REMOVE_TRANSITION
       /\ \A id \in TimerArgs(timers) \ NotifIds(notifications) :
             id \notin NotifIds(notifications')
      ]_vars

\* A notification that was removed twice has left the tracked list, the
\* timeout of the second call is still pending and another notification is
\* tracked.
C16_Witness ==
    /\ notifications # <<>>
    /\ \E i \in DOMAIN timers :
          /\ timers[i].kind = "removal"
          /\ ~Tracked(timers[i].arg)
          /\ timers[i].arg \in DOMAIN gNotif
          /\ gNotif[timers[i].arg].dismissed

\* C17: a notification shown with duration 0 or negative has no timeout
\* scheduled for it and stays tracked and displayed, whatever time passes,
\* until remove(id) or clear() is called.
C17_PersistentUntilDismissed ==
    \A id \in DOMAIN gNotif :
        (gNotif[id].duration <= 0 /\ ~gNotif[id].dismissed) =>
            /\ Tracked(id)
            /\ id \in container
            /\ id \notin TimerArgs(timers)

\* Time has passed since a notification of duration 0 or negative was
\* shown, nobody dismissed it and it is tracked.
C17_Witness ==
    \E id \in DOMAIN gNotif :
        /\ gNotif[id].duration <= 0
        /\ gNotif[id].aged
        /\ ~gNotif[id].dismissed
        /\ Tracked(id)

\* C18: a notification that was tracked when clear() was called is not
\* tracked once the 300 ms removal transition has elapsed since the call; a
\* notification shown after the call (so not marked by it), not dismissed
\* and not expired, is tracked.
C18_ClearRemovesTracked ==
    \A id \in DOMAIN gNotif :
        /\ (gNotif[id].cleared = 0 /\ NoTimerDue) => ~Tracked(id)
        /\ (/\ gNotif[id].cleared = -1
            /\ ~gNotif[id].dismissed
            /\ gNotif[id].duration <= 0 \/ gNotif[id].left > REMOVE_TRANSITION)
              => Tracked(id)

\* The removal transition of a cleared notification has elapsed and it is
\* gone, while a notification shown after the clear() is tracked.
C18_Witness ==
    /\ NoTimerDue
    /\ \E a, b \in DOMAIN gNotif :
          /\ gNotif[a].cleared = 0 /\ ~Tracked(a)
          /\ gNotif[b].cleared = -1 /\ Tracked(b)

\* C21: the auto-dismiss timer of a notification can be cancelled so that
\* it does not fire afterwards: once the notification has been dismissed by
\* hand (remove or clear), its auto-dismiss timeout is not pending any more.
C21_DismissalCancelsTimer ==
    \A i \in DOMAIN timers :
        (timers[i].kind = "autoRemove" /\ timers[i].arg \in DOMAIN gNotif) =>
            ~gNotif[timers[i].arg].dismissed

\* -------------------------------------------------------- WebSocketManager
maxReconnectAttempts == 5
reconnectDelay == 1000

RECURSIVE Pow2(_)
Pow2(n) == IF n = 0 THEN 1 ELSE 2 * Pow2(n - 1)

\* No send() call has been made by the application yet.
NoSend == [type |-> "none"]

WsInit ==
    /\ ws = 0
    /\ sockets = [s \in {} |-> "CLOSED"]
    /\ reconnectAttempts = 0
    /\ heartbeatInterval = 0
    /\ intervals = {}
    /\ wire = "none"
    /\ created = 0
    /\ appConnects = 0
    /\ gFails = 0
    /\ gResetFrom = -1
    /\ gDisc = "no"
    /\ gSend = NoSend

\* The connection state of the client: the readyState of this.ws.
ClientState(w, socks) ==
    IF w = 0 THEN "disconnected"
    ELSE CASE socks[w] = "CONNECTING" -> "connecting"
           [] socks[w] = "OPEN" -> "open"
           [] socks[w] = "CLOSING" -> "closing"
           [] OTHER -> "disconnected"

\* A socket that is closed delivers no event any more: only the one that
\* this.ws refers to is kept, for its readyState.
LiveSockets(socks, w) ==
    [s \in {x \in DOMAIN socks : socks[x] # "CLOSED" \/ x = w} |-> socks[s]]

\* new WebSocket(url): a socket that is connecting.  The URL is the
\* well-formed constant CONFIG.WEBSOCKET_URL, so the constructor returns.
NewSocket(socks) == SeqMin({i \in 1..(Cardinality(DOMAIN socks) + 1) :
                              i \notin DOMAIN socks})

connectSockets(socks, s) ==
    [x \in DOMAIN socks \cup {s} |-> IF x = s THEN "CONNECTING" ELSE socks[x]]

\* startHeartbeat(): the handle setInterval returns.
NewInterval(ivs, hb) == SeqMin({i \in 1..(Cardinality(ivs) + 2) :
                                  i \notin ivs \cup {hb}})

startHeartbeatIntervals(ivs, h) == ivs \cup {h}

stopHeartbeatLeak(ivs, hb) == ivs

onOpenAttemptsKept(attempts) == attempts

onOpenAttemptsDecrement(attempts) ==
    IF attempts > 0 THEN attempts - 1 ELSE 0

\* stopHeartbeat(): clearInterval of the handle the manager holds, if any.
stopHeartbeatIntervals(ivs, hb) == IF hb # 0 THEN ivs \ {hb} ELSE ivs

\* onopen, line 314.
onOpenAttempts(attempts) == 0

handleReconnectRetryInclusive(attempts) == attempts <= maxReconnectAttempts

\* handleReconnect(), line 390: whether another attempt is scheduled.
handleReconnectRetry(attempts) == attempts < maxReconnectAttempts

handleReconnectDelayLinear(attempts) == reconnectDelay * (attempts + 1)

\* handleReconnect(), line 395: the delay of the scheduled attempt.
handleReconnectDelay(attempts) == reconnectDelay * Pow2(attempts)

closeSocketKept(socks, w) == socks

\* ws.close(): an open or connecting socket starts closing.
closeSocket(socks, w) ==
    IF w # 0 /\ socks[w] \in {"CONNECTING", "OPEN"}
    THEN [socks EXCEPT ![w] = "CLOSING"]
    ELSE socks

\* connect(), lines 301-304: a new socket becomes this.ws; the previous one,
\* if any, is neither closed nor stripped of its handlers.
Connect ==
    /\ created < MaxSockets
    /\ LET s == NewSocket(sockets)
       IN /\ ws' = s
          /\ sockets' = LiveSockets(connectSockets(sockets, s), s)
    /\ created' = created + 1
    /\ appConnects' = appConnects + 1
    /\ UNCHANGED <<reconnectAttempts, heartbeatInterval, intervals, wire,
                   gFails, gResetFrom, gDisc, gSend, notifVars, storeVars, postVars, appVars>>

\* The application connects once, when it starts (initializeApp, line 1702,
\* disabled in the source until a server exists).
AppConnectOnce == appConnects = 0 /\ Connect

\* connect() called by the application at any moment, any number of times.
AppConnect == appConnects < MaxAppConnects /\ Connect

\* The timeout of lines 391-395 runs: the counter grows and connect() is
\* called.
ReconnectFires ==
    \E i \in DOMAIN timers :
        /\ timers[i].kind = "reconnect"
        /\ created < MaxSockets
        /\ reconnectAttempts' = reconnectAttempts + 1
        /\ LET s == NewSocket(sockets)
           IN /\ ws' = s
              /\ sockets' = LiveSockets(connectSockets(sockets, s), s)
        /\ created' = created + 1
        /\ timers' = DropTimer(timers, i)
        /\ gDisc' = IF gDisc = "closed" THEN "reconnecting" ELSE "no"
        /\ UNCHANGED <<heartbeatInterval, intervals, wire, appConnects,
                       gFails, gResetFrom, gSend, notifications, container,
                       gNotif, gShown, gNoop, storeVars, postVars, appVars>>

\* The transport of socket s opens: onopen, lines 312-317.
TransportOpen(s) ==
    /\ s \in DOMAIN sockets
    /\ sockets[s] = "CONNECTING"
    /\ sockets' = [sockets EXCEPT ![s] = "OPEN"]
    /\ reconnectAttempts' = onOpenAttempts(reconnectAttempts)
    /\ LET h == NewInterval(intervals, heartbeatInterval)
       IN /\ heartbeatInterval' = h
          /\ intervals' = startHeartbeatIntervals(intervals, h)
    /\ LET id == generateUUID(notifications, timers)
       IN /\ notifications' = showTrack(notifications, id, "success")
          /\ container' = container \cup {id}
          /\ timers' = showSchedule(timers, id, NOTIFICATION_TIMEOUT)
          /\ gNotif' = GhostShown(gNotif, id, NOTIFICATION_TIMEOUT)
    /\ gFails' = 0
    /\ gResetFrom' = IF reconnectAttempts > 0 THEN 1 ELSE 0
    /\ gDisc' = "no"
    /\ UNCHANGED <<ws, wire, created, appConnects, gSend, gShown, gNoop,
                   storeVars, postVars, appVars>>

\* The connection of socket s is closed, cleanly or because it failed.  The
\* browser runs one task: readyState becomes CLOSED, an error event is fired
\* first when the connection failed (onerror only logs), then the close
\* event: onclose, lines 328-332, that is stopHeartbeat() and
\* handleReconnect().
TransportClose(s, failed) ==
    /\ s \in DOMAIN sockets
    /\ sockets[s] # "CLOSED"
    /\ sockets' = LiveSockets([sockets EXCEPT ![s] = "CLOSED"], ws)
    /\ intervals' = stopHeartbeatIntervals(intervals, heartbeatInterval)
    /\ heartbeatInterval' = 0
    /\ IF handleReconnectRetry(reconnectAttempts)
       THEN /\ timers' = Append(timers,
                   Timer("reconnect", 0, handleReconnectDelay(reconnectAttempts)))
            /\ UNCHANGED <<notifications, container, gNotif>>
       ELSE LET id == generateUUID(notifications, timers)
            IN /\ notifications' = showTrack(notifications, id, "danger")
               /\ container' = container \cup {id}
               /\ timers' = showSchedule(timers, id, 0)
               /\ gNotif' = GhostShown(gNotif, id, 0)
    /\ gFails' = gFails + 1
    /\ gDisc' = IF s = ws /\ sockets[s] = "CLOSING" THEN "closed" ELSE "no"
    /\ UNCHANGED <<ws, reconnectAttempts, wire, created, appConnects,
                   gResetFrom, gSend, gShown, gNoop, storeVars, postVars, appVars>>

\* disconnect(), lines 401-406.
Disconnect ==
    /\ intervals' = stopHeartbeatIntervals(intervals, heartbeatInterval)
    /\ heartbeatInterval' = 0
    /\ sockets' = closeSocket(sockets, ws)
    /\ gDisc' = IF ws # 0 /\ sockets[ws] \in {"CONNECTING", "OPEN"}
                THEN "called"
                ELSE gDisc
    /\ UNCHANGED <<ws, reconnectAttempts, wire, created, appConnects,
                   gFails, gResetFrom, gSend, notifVars, storeVars, postVars, appVars>>

sendGuardAnySocket(w, socks) == w # 0

\* send(data), line 371: this.ws && this.ws.readyState === WebSocket.OPEN.
sendGuard(w, socks) == w # 0 /\ socks[w] = "OPEN"

\* WebSocket.send of the browser: it throws InvalidStateError on a socket
\* that is still connecting, transmits the frame on an open socket and
\* discards it on a closing or closed one.
socketSendRaises(readyState) == readyState = "CONNECTING"

socketSend(readyState, wr, type) == IF readyState = "OPEN" THEN type ELSE wr

\* send(data), lines 370-374: the frame that was last transmitted, after
\* the call.
send(w, socks, wr, type) ==
    IF sendGuard(w, socks) /\ ~socketSendRaises(socks[w])
    THEN socketSend(socks[w], wr, type)
    ELSE wr

\* send(data), lines 370-374: whether the call ends with an exception.
sendRaises(w, socks) == sendGuard(w, socks) /\ socketSendRaises(socks[w])

\* The frames the application sends itself (typing indicators).
Frames == {"typing_start", "typing_stop"}

\* wsManager.send(data) called by the application, in whatever state the
\* client is.
Send(type) ==
    /\ wire' = send(ws, sockets, wire, type)
    /\ gSend' = [type |-> type, state |-> ClientState(ws, sockets),
                 raised |-> sendRaises(ws, sockets)]
    /\ UNCHANGED <<ws, sockets, reconnectAttempts, heartbeatInterval,
                   intervals, created, appConnects, gFails, gResetFrom, gDisc,
                   notifVars, storeVars, postVars, appVars>>

\* An active heartbeat interval runs its callback, lines 377-379.
HeartbeatFires ==
    \E h \in intervals :
        /\ wire' = send(ws, sockets, wire, "ping")
        /\ UNCHANGED <<ws, sockets, reconnectAttempts, heartbeatInterval,
                       intervals, created, appConnects, gFails, gResetFrom, gDisc,
                       gSend, notifVars, storeVars, postVars, appVars>>

WsEvents ==
    \/ ReconnectFires
    \/ \E s \in 1..MaxSockets : TransportOpen(s)
    \/ \E s \in 1..MaxSockets, failed \in BOOLEAN : TransportClose(s, failed)
    \/ Disconnect
    \/ HeartbeatFires

\* The client as the application uses it: one connect() call.
WsNext == AppConnectOnce \/ WsEvents

\* The client under any use of its interface.
WsAnyNext == AppConnect \/ WsEvents

\* The client used once by the application, which also sends frames.
SendNext == WsNext \/ \E t \in Frames : Send(t)

\* --------------------------------------------- WebSocketManager: claims
\* The application has called connect() at most once so far.
SingleConnect == appConnects <= 1

IsReconnect(t) == t.kind = "reconnect"

ReconnectTimers(tm) == SelectSeq(tm, IsReconnect)

BackoffSchedule == <<1000, 2000, 4000, 8000, 16000>>

\* C2: with base delay 1000 ms, the reconnect attempt scheduled by the n-th
\* consecutive failure (n = 1..5, no open in between) is delayed by
\* 1000 * 2^(n-1) ms: 1000, 2000, 4000, 8000, 16000.
C2_BackoffDelays ==
    SingleConnect =>
        \A i \in DOMAIN timers :
            IsReconnect(timers[i]) =>
                /\ gFails \in 1..5
                /\ timers[i].remaining = BackoffSchedule[gFails]

\* The fifth consecutive failure has scheduled its attempt, 16000 ms ahead.
C2_Witness ==
    /\ SingleConnect
    /\ gFails = 5
    /\ \E i \in DOMAIN timers :
          IsReconnect(timers[i]) /\ timers[i].remaining = 16000

\* C3: after the sixth consecutive failure (the initial connect() and five
\* reconnect attempts) no reconnect is scheduled, the client is disconnected
\* with no socket left that could open, and a danger notification of
\* duration 0 with no removal timer is tracked.
C3_GivesUpAfterFiveAttempts ==
    (SingleConnect /\ gFails >= 6) =>
        /\ ReconnectTimers(timers) = <<>>
        /\ ClientState(ws, sockets) = "disconnected"
        /\ \A s \in DOMAIN sockets : sockets[s] = "CLOSED"
        /\ \E i \in DOMAIN notifications :
              /\ notifications[i].type = "danger"
              /\ notifications[i].id \in container
              /\ notifications[i].id \notin TimerArgs(timers)
              /\ gNotif[notifications[i].id].duration = 0

\* The sixth consecutive failure has happened.
C3_Witness == SingleConnect /\ gFails = 6 /\ reconnectAttempts = 5

\* The close event of the current socket, connecting or open until then.
ClosesCurrent(s) ==
    /\ s = ws
    /\ sockets[s] \in {"CONNECTING", "OPEN"}
    /\ s \in DOMAIN sockets'
    /\ sockets'[s] = "CLOSED"

\* C8: a close or error of the transport while the client is connecting or
\* open stops the heartbeat, leaves the client disconnected and, while
\* reconnectAttempts < maxReconnectAttempts, schedules exactly one reconnect
\* attempt, delayed by reconnectDelay * 2^reconnectAttempts.
C8_CloseStopsAndSchedules ==
    [][\A s \in DOMAIN sockets :
          ClosesCurrent(s) =>
              /\ heartbeatInterval' = 0
              /\ heartbeatInterval \notin intervals'
              /\ SingleConnect => intervals' = {}
              /\ ClientState(ws', sockets') = "disconnected"
              /\ IF reconnectAttempts < maxReconnectAttempts
                 THEN timers' = Append(timers,
                         Timer("reconnect", 0,
                               reconnectDelay * Pow2(reconnectAttempts)))
                 ELSE ReconnectTimers(timers') = ReconnectTimers(timers)
      ]_vars

\* The socket that had opened has closed: no heartbeat, one attempt pending.
C8_Witness ==
    /\ SingleConnect
    /\ ws # 0 /\ sockets[ws] = "CLOSED"
    /\ gResetFrom >= 0 /\ gFails = 1
    /\ intervals = {}
    /\ Len(ReconnectTimers(timers)) = 1

\* C9: connect() leaves the client connecting; when the transport opens the
\* client is open and reconnectAttempts is 0 whatever it was, and the first
\* failure after that schedules its attempt with the base delay.
C9_OpenResetsBackoff ==
    [][/\ ws' # ws => ClientState(ws', sockets') = "connecting"
       /\ \A s \in DOMAIN sockets :
             (s = ws /\ sockets[s] = "CONNECTING" /\ s \in DOMAIN sockets'
                /\ sockets'[s] = "OPEN") =>
                 /\ reconnectAttempts' = 0
                 /\ ClientState(ws', sockets') = "open"
       /\ (SingleConnect /\ gResetFrom >= 0 /\ gFails = 0 /\ gFails' = 1) =>
             timers' = Append(timers, Timer("reconnect", 0, reconnectDelay))
      ]_vars

\* An open has reset a counter that was positive, and the failure after it
\* has scheduled its attempt.
C9_Witness ==
    /\ SingleConnect
    /\ gResetFrom > 0
    /\ gFails = 1
    /\ reconnectAttempts = 0
    /\ Len(ReconnectTimers(timers)) = 1

\* C10: a heartbeat timer is active exactly while the connection is open,
\* and at most one is active, for any interleaving of connect(),
\* disconnect() and transport events.
C10_HeartbeatOnlyWhileOpen ==
    /\ Cardinality(intervals) <= 1
    /\ intervals # {} <=> ClientState(ws, sockets) = "open"

\* C27: disconnect() stops the heartbeat and starts closing the socket; the
\* close event this causes is handled like a transport failure: while
\* reconnectAttempts < maxReconnectAttempts it schedules a reconnect attempt
\* delayed by the backoff delay, and when that timer runs the client is
\* connecting again: disconnect() does not suppress reconnection.
C27_DisconnectReconnects ==
    [][/\ (gDisc # "called" /\ gDisc' = "called") =>
             /\ heartbeatInterval' = 0
             /\ heartbeatInterval \notin intervals'
             /\ ClientState(ws', sockets') = "closing"
             /\ timers' = timers
             /\ reconnectAttempts' = reconnectAttempts
       /\ (gDisc = "called" /\ gDisc' = "closed") =>
             /\ ClientState(ws', sockets') = "disconnected"
             /\ IF reconnectAttempts < maxReconnectAttempts
                THEN timers' = Append(timers,
                        Timer("reconnect", 0,
                              reconnectDelay * Pow2(reconnectAttempts)))
                ELSE ReconnectTimers(timers') = ReconnectTimers(timers)
       /\ gDisc = "closed" =>
             /\ reconnectAttempts < maxReconnectAttempts =>
                   Len(ReconnectTimers(timers)) = 1
             /\ ReconnectTimers(timers') # ReconnectTimers(timers) =>
                   /\ gDisc' = "reconnecting"
                   /\ ClientState(ws', sockets') = "connecting"
      ]_vars

\* After a deliberate disconnect() of the open client the scheduled attempt
\* has run: the client is connecting again.
C27_Witness ==
    /\ SingleConnect
    /\ gDisc = "reconnecting"
    /\ gResetFrom >= 0
    /\ ClientState(ws, sockets) = "connecting"

\* C28: when the application calls connect() once (and every socket
\* delivers one close event at most), at most one reconnect timer is pending
\* and 0 <= reconnectAttempts <= maxReconnectAttempts in every state; the
\* counter grows only by 1 and only in the step in which a reconnect timer
\* runs, and it shrinks only to 0 and only in the step in which the
\* connecting socket opens.
C28_OneTimerBoundedCounter ==
    [][SingleConnect' =>
          /\ Len(ReconnectTimers(timers')) <= 1
          /\ reconnectAttempts' \in 0..maxReconnectAttempts
          /\ reconnectAttempts' > reconnectAttempts =>
                /\ reconnectAttempts' = reconnectAttempts + 1
                /\ Len(ReconnectTimers(timers')) + 1 =
                       Len(ReconnectTimers(timers))
          /\ reconnectAttempts' < reconnectAttempts =>
                /\ reconnectAttempts' = 0
                /\ sockets[ws] = "CONNECTING"
                /\ ClientState(ws', sockets') = "open"
          /\ Len(ReconnectTimers(timers')) < Len(ReconnectTimers(timers)) =>
                reconnectAttempts' = reconnectAttempts + 1
      ]_vars

\* The fifth attempt is connecting: the counter is at its maximum and no
\* timer is pending.
C28_Witness ==
    /\ SingleConnect
    /\ reconnectAttempts = maxReconnectAttempts
    /\ ClientState(ws, sockets) = "connecting"
    /\ ReconnectTimers(timers) = <<>>

\* C11: send(data) hands the frame to the socket only when the current
\* socket is open; in any other state (no socket, connecting, closing,
\* closed) the call changes nothing and raises no error, and no frame is
\* handed over later (when the socket opens) on behalf of a dropped call.
C11_SendOnlyWhenOpen ==
    [][/\ wire' # wire => ClientState(ws, sockets) = "open"
       /\ gSend' # gSend =>
             /\ ~gSend'.raised
             /\ wire' = IF gSend'.state = "open" THEN gSend'.type ELSE wire
      ]_vars

\* A frame was sent while the client was connecting, the socket has opened
\* since, and the frame never reached it.
C11_Witness ==
    /\ gSend # NoSend
    /\ gSend.state = "connecting"
    /\ ClientState(ws, sockets) = "open"
    /\ wire # gSend.type

\* ------------------------------------------------------------- PostManager
INITIAL_POSTS == 5
SERVER_DELAY == 500

PostInit ==
    /\ posts = <<>>
    /\ uuids = 0
    /\ initialLoaded = FALSE
    /\ liked = {}
    /\ stories = <<>>
    /\ gPosts = [i \in {} |-> "pending"]
    /\ gReacts = <<>>
    /\ gAnswer = "none"
    /\ gRequests = 0
    /\ gRemoved = {}

PostIds(ps) == {ps[i].id : i \in DOMAIN ps}

\* The record createPost() and generateDemoPosts() build, reduced to the
\* fields the managers read afterwards.
PostRecord(id, likes) == [id |-> id, likes |-> likes]

\* loadInitialPosts(): five demo posts are pushed.
RECURSIVE pushDemoPosts(_, _, _)
pushDemoPosts(ps, next, count) ==
    IF count = 0 THEN ps
    ELSE pushDemoPosts(Append(ps, PostRecord(next + 1, 0)), next + 1, count - 1)

LoadInitialPosts ==
    /\ ~initialLoaded
    /\ initialLoaded' = TRUE
    /\ posts' = pushDemoPosts(posts, uuids, INITIAL_POSTS)
    /\ uuids' = uuids + INITIAL_POSTS
    /\ UNCHANGED <<liked, stories, gPosts, gReacts, gAnswer, gRequests,
                   gRemoved, notifVars, wsVars, storeVars, appVars>>

\* createPost(), line 440: this.posts.unshift(postData).
createPostInsert(ps, post) == <<post>> \o ps

createPostRollbackNewer(ps, id) == SelectSeq(ps, LAMBDA q : q.id < id)

createPostRollbackShift(ps, id) == IF ps = <<>> THEN ps ELSE Tail(ps)

\* createPost(), line 454: the record is filtered out by id.
createPostRollback(ps, id) == SelectSeq(ps, LAMBDA q : q.id # id)

\* sendToServer(endpoint, data): the timeout of lines 769-775 is pending.
sendToServer(tm, op, id) ==
    Append(tm, Timer("request", [op |-> op, post |-> id], SERVER_DELAY))

\* createPost(), lines 421-445: up to the await of the server's answer.
CreatePost ==
    /\ Cardinality(DOMAIN gPosts) < MaxCreates
    /\ LET id == uuids + 1
       IN /\ posts' = createPostInsert(posts, PostRecord(id, 0))
          /\ timers' = sendToServer(timers, "createPost", id)
          /\ gPosts' = [i \in DOMAIN gPosts \cup {id} |->
                          IF i = id THEN "pending" ELSE gPosts[i]]
    /\ uuids' = uuids + 1
    /\ UNCHANGED <<initialLoaded, liked, stories, gReacts, gAnswer, gRequests,
                   gRemoved, notifications, container, gNotif, wsVars,
                   gShown, gNoop, storeVars, appVars>>

\* Every request waits for the same delay, so the requests are answered in
\* the order in which they were sent.
IsRequest(t) == t.kind = "request"

OldestRequest(tm) == SeqMin({i \in DOMAIN tm : IsRequest(tm[i])})

\* The timeout of sendToServer() runs for a createPost() and the promise is
\* resolved (ok) or rejected; the rest of createPost(), lines 446-456, runs.
CreatePostAnswered(ok) ==
    /\ \E i \in DOMAIN timers : IsRequest(timers[i])
    /\ LET i == OldestRequest(timers)
           id == timers[i].arg.post
           nid == generateUUID(notifications, timers)
           type == IF ok THEN "success" ELSE "danger"
       IN /\ timers[i].arg.op = "createPost"
          /\ notifications' = showTrack(notifications, nid, type)
          /\ container' = container \cup {nid}
          /\ timers' = showSchedule(DropTimer(timers, i), nid,
                                    NOTIFICATION_TIMEOUT)
          /\ gNotif' = GhostShown(gNotif, nid, NOTIFICATION_TIMEOUT)
          /\ posts' = IF ok THEN posts ELSE createPostRollback(posts, id)
          /\ wire' = IF ok THEN send(ws, sockets, wire, "new_post") ELSE wire
          /\ gPosts' = [gPosts EXCEPT ![id] =
                          IF ok THEN "confirmed" ELSE "failed"]
    /\ gAnswer' = IF ok THEN "ok" ELSE "failed"
    /\ UNCHANGED <<uuids, initialLoaded, liked, stories, gReacts, gRequests,
                   gRemoved, ws, sockets, reconnectAttempts,
                   heartbeatInterval, intervals, created, appConnects,
                   gFails, gResetFrom, gDisc, gSend, gShown, gNoop, storeVars, appVars>>

\* The record of posts with a given id (posts.find).
PostWith(ps, id) == ps[CHOOSE i \in DOMAIN ps : ps[i].id = id]

\* toggleReaction(), lines 642-644 and 646: the new likes count.
toggleLikes(likes, isActive) ==
    IF isActive THEN (IF likes - 1 > 0 THEN likes - 1 ELSE 0) ELSE likes + 1

\* toggleReaction(), lines 643 and 647: the button's class 'active'.
toggleActive(lk, id) == IF id \in lk THEN lk \ {id} ELSE lk \cup {id}

\* toggleReaction(), lines 642-648, on the record of the post.
toggleReactionPosts(ps, id, isActive) ==
    [i \in DOMAIN ps |->
        IF ps[i].id = id
        THEN [ps[i] EXCEPT !.likes = toggleLikes(@, isActive)]
        ELSE ps[i]]

\* toggleReaction(postId, 'like'), lines 636-664, up to the await; with an
\* id that posts does not hold it returns at once.
ToggleReaction(id) ==
    /\ gRequests < MaxRequests
    /\ id \in PostIds(posts)
    /\ LET isActive == id \in liked
       IN /\ posts' = toggleReactionPosts(posts, id, isActive)
          /\ liked' = toggleActive(liked, id)
          /\ timers' = sendToServer(timers, "react", id)
          /\ gReacts' = Append(gReacts, [post |-> id,
                                         likes |-> PostWith(posts, id).likes,
                                         active |-> isActive])
    /\ gRequests' = gRequests + 1
    /\ UNCHANGED <<uuids, initialLoaded, stories, gPosts, gAnswer, gRemoved,
                   notifications, container, gNotif, wsVars, gShown, gNoop, storeVars, appVars>>

\* The request of a toggleReaction() is answered: lines 659-666; the catch
\* branch only logs.
ReactionAnswered(ok) ==
    /\ \E i \in DOMAIN timers : IsRequest(timers[i])
    /\ LET i == OldestRequest(timers)
       IN /\ timers[i].arg.op = "react"
          /\ timers' = DropTimer(timers, i)
    /\ gReacts' = Tail(gReacts)
    /\ gAnswer' = IF ok THEN "ok" ELSE "failed"
    /\ UNCHANGED <<posts, uuids, initialLoaded, liked, stories, gPosts,
                   gRequests, gRemoved, notifications, container, gNotif,
                   wsVars, gShown, gNoop, storeVars, appVars>>

\* savePost(postId), line 689, up to the await.
SavePost(id) ==
    /\ gRequests < MaxRequests
    /\ timers' = sendToServer(timers, "savePost", id)
    /\ gRequests' = gRequests + 1
    /\ UNCHANGED <<posts, uuids, initialLoaded, liked, stories, gPosts,
                   gReacts, gAnswer, gRemoved, notifications, container,
                   gNotif, wsVars, gShown, gNoop, storeVars, appVars>>

\* The request of a savePost() is answered: lines 690-694.
SavePostAnswered(ok) ==
    /\ \E i \in DOMAIN timers : IsRequest(timers[i])
    /\ LET i == OldestRequest(timers)
           nid == generateUUID(notifications, timers)
           type == IF ok THEN "success" ELSE "danger"
       IN /\ timers[i].arg.op = "savePost"
          /\ notifications' = showTrack(notifications, nid, type)
          /\ container' = container \cup {nid}
          /\ timers' = showSchedule(DropTimer(timers, i), nid,
                                    NOTIFICATION_TIMEOUT)
          /\ gNotif' = GhostShown(gNotif, nid, NOTIFICATION_TIMEOUT)
    /\ gAnswer' = IF ok THEN "ok" ELSE "failed"
    /\ UNCHANGED <<posts, uuids, initialLoaded, liked, stories, gPosts,
                   gReacts, gRequests, gRemoved, wsVars, gShown, gNoop, storeVars, appVars>>

\* createStory(media), lines 1286-1302, up to the await.
CreateStory ==
    /\ gRequests < MaxRequests
    /\ timers' = sendToServer(timers, "createStory", uuids + 1)
    /\ uuids' = uuids + 1
    /\ gRequests' = gRequests + 1
    /\ UNCHANGED <<posts, initialLoaded, liked, stories, gPosts, gReacts,
                   gAnswer, gRemoved, notifications, container, gNotif,
                   wsVars, gShown, gNoop, storeVars, appVars>>

\* The request of a createStory() is answered: lines 1303-1308.
CreateStoryAnswered(ok) ==
    /\ \E i \in DOMAIN timers : IsRequest(timers[i])
    /\ LET i == OldestRequest(timers)
           nid == generateUUID(notifications, timers)
           type == IF ok THEN "success" ELSE "danger"
       IN /\ timers[i].arg.op = "createStory"
          /\ stories' = IF ok THEN <<timers[i].arg.post>> \o stories
                        ELSE stories
          /\ notifications' = showTrack(notifications, nid, type)
          /\ container' = container \cup {nid}
          /\ timers' = showSchedule(DropTimer(timers, i), nid,
                                    NOTIFICATION_TIMEOUT)
          /\ gNotif' = GhostShown(gNotif, nid, NOTIFICATION_TIMEOUT)
    /\ gAnswer' = IF ok THEN "ok" ELSE "failed"
    /\ UNCHANGED <<posts, uuids, initialLoaded, liked, gPosts, gReacts,
                   gRequests, gRemoved, wsVars, gShown, gNoop, storeVars, appVars>>

\* Another task of the page, given postManager by window.ChatSpeed, takes a
\* record out of postManager.posts.
ExternalRemove(id) ==
    /\ id \in PostIds(posts)
    /\ posts' = SelectSeq(posts, LAMBDA q : q.id # id)
    /\ gRemoved' = gRemoved \cup {id}
    /\ UNCHANGED <<uuids, initialLoaded, liked, stories, gPosts, gReacts,
                   gAnswer, gRequests, notifVars, wsVars, storeVars, appVars>>

\* The posts the user acts on: the oldest post of the page and the first
\* post created after the initial load.
Targets == {1, INITIAL_POSTS + 1}

\* initializeApp(), line 1699: the initial posts are loaded when the page
\* starts, before the user does anything.
LoadInitialPostsAtStart == uuids = 0 /\ gRequests = 0 /\ LoadInitialPosts

PostNext ==
    \/ LoadInitialPosts
    \/ CreatePost
    \/ \E ok \in BOOLEAN : CreatePostAnswered(ok)

\* The post the user reacts to while posts are created: the oldest one.
Reacted == {1}

\* createPost() while other tasks change posts: reactions alter a record,
\* and records are taken out of the list.
PostSharedNext ==
    \/ LoadInitialPostsAtStart
    \/ CreatePost
    \/ \E ok \in BOOLEAN : CreatePostAnswered(ok)
    \/ \E id \in Reacted : ToggleReaction(id)
    \/ \E ok \in BOOLEAN : ReactionAnswered(ok)
    \/ \E id \in Targets : ExternalRemove(id)

\* Every mutation that asks the server for a confirmation.
RequestsNext ==
    \/ LoadInitialPostsAtStart
    \/ CreatePost
    \/ \E ok \in BOOLEAN : CreatePostAnswered(ok)
    \/ \E id \in Targets : ToggleReaction(id)
    \/ \E ok \in BOOLEAN : ReactionAnswered(ok)
    \/ \E id \in Targets : SavePost(id)
    \/ \E ok \in BOOLEAN : SavePostAnswered(ok)
    \/ CreateStory
    \/ \E ok \in BOOLEAN : CreateStoryAnswered(ok)

\* ------------------------------------------------- PostManager: claims
Created(status) == {id \in DOMAIN gPosts : gPosts[id] = status}

Shown(type) == {i \in DOMAIN notifications : notifications[i].type = type}

RequestFor(id) ==
    \E i \in DOMAIN timers :
        IsRequest(timers[i]) /\ timers[i].arg = [op |-> "createPost", post |-> id]

\* C4: createPost puts the record into posts before its request is sent;
\* when the request fails the record is gone once the failure is handled
\* and a failure notification has been shown; when it succeeds the record
\* stays in posts, whatever happens to other posts later.
C4_OptimisticInsertAndRollback ==
    /\ \A id \in Created("pending") : id \in PostIds(posts) /\ RequestFor(id)
    /\ \A id \in Created("failed") : id \notin PostIds(posts)
    /\ \A id \in Created("confirmed") : id \in PostIds(posts)
    /\ Cardinality(Shown("danger")) = Cardinality(Created("failed"))

\* A post was confirmed and a post created after it has failed.
C4_Witness ==
    \E a \in Created("confirmed"), b \in Created("failed") : a < b

\* The records of a list other than the one with a given id, in list order.
Others(ps, id) == SelectSeq(ps, LAMBDA q : q.id # id)

\* The step handles the answer to the createPost() request of post id.
Settles(id, outcome) == gPosts[id] = "pending" /\ gPosts'[id] = outcome

\* C12: with several createPost calls in flight and other changes made to
\* posts meanwhile, a failing confirmation takes out of posts the record its
\* call created, wherever it is in the list, and leaves every other record
\* as it is and in place; a succeeding one leaves posts alone; a call is
\* settled once and settling it settles no other call.
C12_RollbackByIdOnly ==
    [][\A id \in DOMAIN gPosts :
          /\ Settles(id, "failed") =>
                /\ id \notin PostIds(posts')
                /\ Others(posts', id) = Others(posts, id)
          /\ Settles(id, "confirmed") => posts' = posts
          /\ gPosts'[id] # gPosts[id] =>
                /\ gPosts[id] = "pending"
                /\ ~RequestFor(id)'
                /\ \A other \in DOMAIN gPosts \ {id} :
                      gPosts'[other] = gPosts[other]
      ]_vars

\* A post has been rolled back while a post created after it, still
\* pending, is ahead of it in the list and an older record carries a like.
C12_Witness ==
    \E b \in Created("failed"), c \in Created("pending") :
        /\ b < c
        /\ c \in PostIds(posts)
        /\ \E i \in DOMAIN posts : posts[i].id < b /\ posts[i].likes > 0

\* C13: when the record createPost() inserted is no longer in posts at the
\* time its confirmation fails, the failure is handled to its end (the
\* notification is shown) and posts is left as it is.
C13_RollbackOfAbsentRecord ==
    [][\A id \in DOMAIN gPosts :
          (Settles(id, "failed") /\ id \notin PostIds(posts)) =>
              /\ posts' = posts
              /\ Len(notifications') = Len(notifications) + 1
              /\ notifications'[Len(notifications')].type = "danger"
      ]_vars

\* The confirmation of a post that another task had taken out of the list
\* has failed, and the list holds other records.
C13_Witness ==
    /\ posts # <<>>
    /\ \E id \in Created("failed") : id \in gRemoved

\* The step answers a request (the oldest one pending) of kind op.
Answers(op) ==
    /\ \E i \in DOMAIN timers : IsRequest(timers[i])
    /\ timers[OldestRequest(timers)].arg.op = op
    /\ Len(SelectSeq(timers', IsRequest)) < Len(SelectSeq(timers, IsRequest))

\* C14: toggleReaction changes the likes count and the button at once, and
\* when its request fails (no other reaction to the post being in flight)
\* the count and the button are again what they were before the toggle.
C14_ReactionRolledBack ==
    [][/\ Len(gReacts') > Len(gReacts) =>
             LET r == gReacts'[Len(gReacts')]
             IN /\ PostWith(posts', r.post).likes # r.likes
                /\ (r.post \in liked') # r.active
       /\ (Answers("react") /\ gAnswer' = "failed") =>
             LET r == Head(gReacts)
             IN (/\ r.post \in PostIds(posts')
                 /\ \A i \in 2..Len(gReacts) : gReacts[i].post # r.post) =>
                    /\ PostWith(posts', r.post).likes = r.likes
                    /\ (r.post \in liked') = r.active
      ]_vars

\* C15: every request that fails (create-post, react-to-post, save-post,
\* create-story) has a danger notification shown by the step handling the
\* failure.
C15_FailureAlwaysNotified ==
    [][\A op \in {"createPost", "react", "savePost", "createStory"} :
          (Answers(op) /\ gAnswer' = "failed") =>
              /\ Len(notifications') = Len(notifications) + 1
              /\ notifications'[Len(notifications')].type = "danger"
      ]_vars

\* ------------------------------------------------------------ ThemeManager
\* What localStorage may hold under the theme key when the page loads:
\* nothing, the empty string, a theme, or anything else.
StoredThemes == {Null, "", "light", "dark", "blue"}

ThemeInit ==
    /\ currentTheme = Null
    /\ storage = Null
    /\ gTheme = <<>>

\* constructor, line 186: localStorage.getItem(...) || 'light'.
constructTheme(stored) ==
    IF stored = Null \/ stored = "" THEN "light" ELSE stored

toggleThemeDark(cur) == "dark"

\* toggleTheme(), line 191.
toggleThemeNext(cur) == IF cur = "light" THEN "dark" ELSE "light"

\* saveTheme(), line 208: the value written under the theme key.
saveTheme(cur) == cur

\* applyTheme(theme), line 198: appState.setState('theme', theme).  Nothing
\* in the script subscribes to the store, so the call notifies nobody.
ApplyTheme(theme) ==
    /\ stack = <<>>
    /\ "theme" \notin DOMAIN listeners
    /\ state' = setStateStore(state, "theme", theme)
    /\ gLast' = [gLast EXCEPT !["theme"] = theme]
    /\ UNCHANGED <<listeners, stack, calls, gOrder>>

\* new ThemeManager(), lines 185-188, on a page whose localStorage holds
\* `stored` under the theme key.
ThemeManagerNew(stored) ==
    /\ currentTheme = Null
    /\ storage' = stored
    /\ currentTheme' = constructTheme(stored)
    /\ ApplyTheme(currentTheme')
    /\ UNCHANGED <<gTheme, notifVars, wsVars, postVars, presenceVars,
                   mediaVars, loadVars, chatVars>>

\* toggleTheme(), lines 190-194.
ToggleTheme ==
    /\ currentTheme # Null
    /\ currentTheme' = toggleThemeNext(currentTheme)
    /\ ApplyTheme(currentTheme')
    /\ storage' = saveTheme(currentTheme')
    /\ gTheme' = IF Len(gTheme) < 2 THEN Append(gTheme, currentTheme)
                 ELSE <<gTheme[2], currentTheme>>
    /\ UNCHANGED <<notifVars, wsVars, postVars, presenceVars, mediaVars,
                   loadVars, chatVars>>

\* setCustomTheme(themeName), lines 211-214: the body class changes and
\* saveTheme() writes the current theme, not themeName.
SetCustomTheme ==
    /\ currentTheme # Null
    /\ storage' = saveTheme(currentTheme)
    /\ gTheme' = <<>>
    /\ UNCHANGED <<currentTheme, storeVars, notifVars, wsVars, postVars,
                   presenceVars, mediaVars, loadVars, chatVars>>

\* Another page of the same origin (or the user) writes or deletes the
\* entry of localStorage.
StorageWrite(v) ==
    /\ currentTheme # Null
    /\ storage # v
    /\ storage' = v
    /\ gTheme' = <<>>
    /\ UNCHANGED <<currentTheme, storeVars, notifVars, wsVars, postVars,
                   presenceVars, mediaVars, loadVars, chatVars>>

ThemeNext ==
    \/ \E v \in StoredThemes : ThemeManagerNew(v)
    \/ ToggleTheme
    \/ SetCustomTheme
    \/ \E v \in StoredThemes : StorageWrite(v)

\* C26: after every toggleTheme() the persisted value equals currentTheme
\* and the 'theme' entry of the store, and is light or dark; two toggles in
\* a row restore the theme that was current before them when that theme was
\* light or dark.
C26_ToggleConsistent ==
    /\ gTheme # <<>> =>
          /\ storage = currentTheme
          /\ state["theme"] = currentTheme
          /\ currentTheme \in {"light", "dark"}
    /\ (Len(gTheme) = 2 /\ gTheme[1] \in {"light", "dark"}) =>
          currentTheme = gTheme[1]

\* The manager was constructed from a stored 'dark' and toggled twice.
C26_Witness ==
    /\ Len(gTheme) = 2
    /\ gTheme[1] = "dark"
    /\ currentTheme = "dark"
    /\ storage = "dark"

\* ---------------------------------------------------- PostManager.loadMore
POSTS_PER_PAGE == 10
LOAD_DELAY == 1000
LAST_PAGE == 3

LoadInit ==
    /\ currentPage = 1
    /\ isLoading = FALSE
    /\ hasMore = TRUE
    /\ gLoads = [started |-> 0, ok |-> 0, failed |-> 0, ignored |-> FALSE]

loadMoreGuardLoadingOnly(loading, more) == loading

\* loadMore(), line 698: whether the call returns at once.
loadMoreGuard(loading, more) == loading \/ ~more

\* loadMore(), lines 718-719.
loadMoreHasMore(page, more) == IF page > LAST_PAGE THEN FALSE ELSE more

\* loadMore(), called by the button or by the scroll listener (which checks
\* the same two fields first, lines 1747-1749), up to the await of line 709.
LoadMore ==
    /\ IF loadMoreGuard(isLoading, hasMore)
       THEN /\ gLoads' = [gLoads EXCEPT !.ignored = TRUE]
            /\ UNCHANGED <<isLoading, timers>>
       ELSE /\ gLoads.started < MaxLoads
            /\ isLoading' = TRUE
            /\ timers' = Append(timers, Timer("loadMore", 0, LOAD_DELAY))
            /\ gLoads' = [gLoads EXCEPT !.started = @ + 1, !.ignored = FALSE]
    /\ UNCHANGED <<currentPage, hasMore, notifications, container, gNotif,
                   gShown, gNoop, storeVars, wsVars, postVars, themeVars,
                   presenceVars, mediaVars, chatVars>>

\* The timeout of line 709 has run and loadMore() goes on, lines 711-729:
\* the posts are generated and rendered and the page counted, unless the
\* rendering throws (ok = FALSE), which the catch block reports.
LoadMoreResumes(ok) ==
    \E i \in DOMAIN timers :
        /\ timers[i].kind = "loadMore"
        /\ uuids' = uuids + POSTS_PER_PAGE
        /\ IF ok
           THEN /\ currentPage' = currentPage + 1
                /\ hasMore' = loadMoreHasMore(currentPage', hasMore)
                /\ timers' = DropTimer(timers, i)
                /\ UNCHANGED <<notifications, container, gNotif>>
           ELSE LET tm == DropTimer(timers, i)
                    id == generateUUID(notifications, tm)
                IN /\ notifications' = showTrack(notifications, id, "danger")
                   /\ container' = container \cup {id}
                   /\ timers' = showSchedule(tm, id, NOTIFICATION_TIMEOUT)
                   /\ gNotif' = GhostShown(gNotif, id, NOTIFICATION_TIMEOUT)
                   /\ UNCHANGED <<currentPage, hasMore>>
        /\ isLoading' = FALSE
        /\ gLoads' = [gLoads EXCEPT !.ok = IF ok THEN @ + 1 ELSE @,
                                    !.failed = IF ok THEN @ ELSE @ + 1,
                                    !.ignored = FALSE]
        /\ UNCHANGED <<posts, initialLoaded, liked, stories, gPosts, gReacts,
                       gAnswer, gRequests, gRemoved, gShown, gNoop, storeVars,
                       wsVars, themeVars, presenceVars, mediaVars, chatVars>>

LoadNext ==
    \/ LoadMore
    \/ \E ok \in BOOLEAN : LoadMoreResumes(ok)

\* The handlers setupGlobalEventListeners() registers for the theme button,
\* the load-more button and the scroll position.
PageNext == ThemeNext \/ LoadNext

IsLoad(t) == t.kind = "loadMore"

\* C29: a loadMore() call made while a load is in flight or after hasMore
\* became false changes nothing; a load is in flight exactly while
\* isLoading holds, one at most, and isLoading is false after it completes,
\* with success or failure; currentPage is 1 plus the number of successful
\* loads, hasMore is false exactly when currentPage exceeds 3, and at most
\* three loads succeed.
C29_LoadMoreExclusive ==
    [][/\ (gLoads'.ignored /\ ~gLoads.ignored) =>
             /\ isLoading \/ ~hasMore
             /\ UNCHANGED <<currentPage, isLoading, hasMore, timers,
                            notifications>>
       /\ gLoads'.started > gLoads.started => (~isLoading /\ hasMore)
       /\ isLoading' <=> Len(SelectSeq(timers', IsLoad)) = 1
       /\ Len(SelectSeq(timers', IsLoad)) <= 1
       /\ (gLoads'.ok + gLoads'.failed > gLoads.ok + gLoads.failed) =>
             (isLoading /\ ~isLoading')
       /\ currentPage' = 1 + gLoads'.ok
       /\ currentPage' - currentPage =
             gLoads'.ok - gLoads.ok
       /\ hasMore' <=> currentPage' <= LAST_PAGE
       /\ gLoads'.ok <= LAST_PAGE
      ]_vars

\* Three loads have succeeded and one has failed; a later call was ignored.
C29_Witness ==
    /\ gLoads.ok = 3
    /\ gLoads.failed = 1
    /\ gLoads.ignored
    /\ ~hasMore
    /\ ~isLoading

\* ------------------------------------- WebSocketManager: inbound messages
Undefined == "undefined"
Users == {"u1", "u2"}

KnownTypes == {"new_post", "user_online", "user_offline", "typing_start",
               "typing_stop", "notification"}

\* The frames a server may send: text that is not JSON, the JSON text null,
\* and objects with a type (one of them unknown to the client), with or
\* without a payload; the payload of a presence or typing message may lack
\* its userId and that of a notification its type.
Inbound ==
    {[kind |-> "garbage"], [kind |-> "null"]}
    \cup [kind : {"message"}, type : KnownTypes \cup {"pong"},
          payload : {FALSE}]
    \cup [kind : {"message"}, type : {"new_post", "pong"}, payload : {TRUE}]
    \cup [kind : {"message"},
          type : {"user_online", "user_offline", "typing_start",
                  "typing_stop"},
          payload : {TRUE}, userId : Users \cup {Undefined}]
    \cup [kind : {"message"}, type : {"notification"}, payload : {TRUE},
          ntype : {Undefined, "warning"}]

PresenceInit ==
    /\ onlineUsers = {}
    /\ typingUsers = {}
    /\ uncaught = FALSE
    /\ gPresence = [online |-> [u \in {} |-> "none"],
                    typing |-> [u \in {} |-> "none"]]
    /\ gInbound = "none"
    /\ gMsgs = 0

\* JSON.parse(event.data), line 321: whether it throws.
jsonParseThrows(f) == f.kind = "garbage"

\* handleMessage(data), lines 339-360: whether it throws, on data.type when
\* data is null and on data.payload.userId or data.payload.message when the
\* payload is missing; handleNewPost does not read its argument.
handleMessageThrows(f) ==
    \/ f.kind = "null"
    \/ /\ f.kind = "message"
       /\ f.type \in KnownTypes \ {"new_post"}
       /\ ~f.payload

onmessageEscapesUncaught(throws) == throws

\* onmessage, lines 320-325: the try block holds both calls and the catch
\* block only logs.
onmessageEscapes(throws) == FALSE

handleMessageOnlineDefault(online, f) ==
    IF f.type = "user_offline" THEN online \ {f.userId}
    ELSE IF "userId" \in DOMAIN f THEN online \cup {f.userId}
    ELSE online \cup {Undefined}

handleMessageTypingShared(typing, f) ==
    CASE f.type \in {"typing_start", "user_online"} ->
             typing \cup {f.userId}
      [] f.type = "typing_stop" -> typing \ {f.userId}
      [] OTHER -> typing

\* handleMessage(data), lines 344-349: the Set under 'onlineUsers'.
handleMessageOnline(online, f) ==
    CASE f.type = "user_online" -> online \cup {f.userId}
      [] f.type = "user_offline" -> online \ {f.userId}
      [] OTHER -> online

\* handleMessage(data), lines 350-355: the Set under 'typingUsers'.
handleMessageTyping(typing, f) ==
    CASE f.type = "typing_start" -> typing \cup {f.userId}
      [] f.type = "typing_stop" -> typing \ {f.userId}
      [] OTHER -> typing

\* show(message, type = 'info'), line 225: the default of the parameter.
notificationType(ntype) == IF ntype = Undefined THEN "info" ELSE ntype

GhostLast(g, f) ==
    IF f.type \in {"user_online", "user_offline"}
    THEN [g EXCEPT !.online =
             [u \in DOMAIN @ \cup {f.userId} |->
                 IF u = f.userId THEN f.type ELSE @[u]]]
    ELSE IF f.type \in {"typing_start", "typing_stop"}
    THEN [g EXCEPT !.typing =
             [u \in DOMAIN @ \cup {f.userId} |->
                 IF u = f.userId THEN f.type ELSE @[u]]]
    ELSE g

\* What the ghost keeps of a frame: that it was not JSON or lacked what its
\* type needs, or else its type.
FrameClass(f) ==
    IF f.kind # "message" THEN "malformed"
    ELSE IF f.type \in KnownTypes \ {"new_post"} /\ ~f.payload
    THEN "incomplete"
    ELSE f.type

\* A socket that is open delivers the frame f: onmessage, lines 319-326,
\* and handleMessage, lines 339-360.
Message(f) ==
    /\ \E s \in DOMAIN sockets : sockets[s] = "OPEN"
    /\ gMsgs < MaxMessages
    /\ LET throws == jsonParseThrows(f) \/ handleMessageThrows(f)
       IN /\ uncaught' = onmessageEscapes(throws)
          /\ IF throws
             THEN UNCHANGED <<onlineUsers, typingUsers, notifications,
                              container, timers, gNotif, gPresence>>
             ELSE /\ onlineUsers' = handleMessageOnline(onlineUsers, f)
                  /\ typingUsers' = handleMessageTyping(typingUsers, f)
                  /\ gPresence' = GhostLast(gPresence, f)
                  /\ IF f.type = "notification"
                     THEN LET id == generateUUID(notifications, timers)
                              type == notificationType(f.ntype)
                          IN /\ notifications' =
                                    showTrack(notifications, id, type)
                             /\ container' = container \cup {id}
                             /\ timers' = showSchedule(timers, id,
                                                       NOTIFICATION_TIMEOUT)
                             /\ gNotif' = GhostShown(gNotif, id,
                                                     NOTIFICATION_TIMEOUT)
                     ELSE UNCHANGED <<notifications, container, timers,
                                      gNotif>>
    /\ gInbound' = FrameClass(f)
    /\ gMsgs' = gMsgs + 1
    /\ UNCHANGED <<gShown, gNoop, storeVars, wsVars, postVars, themeVars,
                   mediaVars, loadVars, chatVars>>

\* The first connection of the client, from the connect() call of the
\* application until it ends, and the frames its server sends meanwhile.
InboundNext ==
    \/ AppConnectOnce
    \/ \E s \in 1..MaxSockets : TransportOpen(s)
    \/ \E s \in 1..MaxSockets, failed \in BOOLEAN : TransportClose(s, failed)
    \/ Disconnect
    \/ HeartbeatFires
    \/ \E f \in Inbound : Message(f)

\* A step in which a frame is delivered.
Delivered == gMsgs' > gMsgs

\* C22: an inbound message whose type is none of the six known ones leaves
\* the state store (its entries, listeners and the two user sets), the
\* notification list and the connection state (socket, readyState,
\* reconnectAttempts, heartbeat) unchanged, and no exception escapes.
C22_UnknownTypeIgnored ==
    [][(Delivered /\ gInbound' = "pong") =>
          /\ ~uncaught'
          /\ UNCHANGED <<state, listeners, onlineUsers, typingUsers>>
          /\ UNCHANGED <<notifications, container, timers>>
          /\ UNCHANGED <<ws, sockets, reconnectAttempts, heartbeatInterval,
                         intervals>>
      ]_vars

\* A message of unknown type was delivered last to the open client, after
\* messages that had put a user online and shown a notification.
C22_Witness ==
    /\ gInbound = "pong"
    /\ ClientState(ws, sockets) = "open"
    /\ onlineUsers # {}
    /\ Len(notifications) = 2

\* C23: user_online and user_offline add and remove payload.userId in
\* onlineUsers, typing_start and typing_stop in typingUsers, notification
\* adds one notification to the queue, and each type changes only its own
\* target: onlineUsers holds exactly the users whose last presence message
\* was user_online (and typingUsers those whose last typing message was
\* typing_start).
C23_DispatchByType ==
    [][/\ onlineUsers' = {u \in DOMAIN gPresence'.online :
                             gPresence'.online[u] = "user_online"}
       /\ typingUsers' = {u \in DOMAIN gPresence'.typing :
                             gPresence'.typing[u] = "typing_start"}
       /\ Delivered =>
             /\ gInbound' \notin {"user_online", "user_offline"} =>
                    onlineUsers' = onlineUsers
             /\ gInbound' \notin {"typing_start", "typing_stop"} =>
                    typingUsers' = typingUsers
             /\ IF gInbound' = "notification"
                THEN /\ Len(notifications') = Len(notifications) + 1
                     /\ SubSeq(notifications', 1, Len(notifications)) =
                            notifications
                     /\ notifications'[Len(notifications')].id \in container'
                     /\ notifications'[Len(notifications')].type
                            \in {"info", "warning"}
                ELSE UNCHANGED <<notifications, container, timers>>
             /\ state' = state
      ]_vars

\* One user is online and typing, the last presence message of another one
\* was user_offline.
C23_Witness ==
    \E u, v \in Users :
        /\ u # v
        /\ u \in DOMAIN gPresence.online
        /\ gPresence.online[u] = "user_offline"
        /\ onlineUsers = {v}
        /\ typingUsers = {v}

\* C24: a frame that is not valid JSON, or a message of a known type
\* without its payload, is handled inside the message handler: no exception
\* escapes it and the connection state, the heartbeat and reconnectAttempts
\* are unchanged.
C24_MalformedFrameContained ==
    [][(Delivered /\ gInbound' \in {"malformed", "incomplete"}) =>
          /\ ~uncaught'
          /\ UNCHANGED <<ws, sockets, reconnectAttempts, heartbeatInterval,
                         intervals, wire>>
          /\ ReconnectTimers(timers') = ReconnectTimers(timers)
      ]_vars

\* A message without payload was delivered to the open client, whose
\* heartbeat is running.
C24_Witness ==
    /\ gInbound = "incomplete"
    /\ ~uncaught
    /\ ClientState(ws, sockets) = "open"
    /\ heartbeatInterval # 0
    /\ heartbeatInterval \in intervals

\* ------------------------------------------------------------ MediaManager
MAX_FILE_SIZE == 10485760
maxFiles == 10
SUPPORTED_FORMATS == {"jpg", "jpeg", "png", "gif", "mp4", "webm"}

\* The files the user can select: a name, as the list of its parts between
\* dots, and a size.  One is valid (upper-case extension, size exactly at the
\* limit), one is a byte too large, one has an unsupported extension and
\* one has a name without a dot.
FilePool ==
    {[name |-> <<"b", "PNG">>, size |-> MAX_FILE_SIZE],
     [name |-> <<"c", "png">>, size |-> MAX_FILE_SIZE + 1],
     [name |-> <<"d", "exe">>, size |-> 1],
     [name |-> <<"readme">>, size |-> 1]}

RECURSIVE SeqsUpTo(_, _)
SeqsUpTo(S, n) ==
    IF n = 0 THEN {<<>>}
    ELSE LET shorter == SeqsUpTo(S, n - 1)
         IN shorter \cup {Append(q, x) : q \in shorter, x \in S}

Batches == SeqsUpTo(FilePool, MaxBatch)

MediaInit ==
    /\ selectedFiles = <<>>
    /\ gBatch = <<>>

\* String.prototype.toLowerCase, on the name parts of the pool.
toLowerCase(part) ==
    CASE part = "PNG" -> "png"
      [] OTHER -> part

\* validateFile, line 996: file.name.split('.').pop().toLowerCase().
extension(name) == toLowerCase(name[Len(name)])

validateFileSizeOnly(file) == file.size <= MAX_FILE_SIZE

\* validateFile(file), lines 988-1003: the value it returns.
validateFile(file) ==
    /\ ~(file.size > MAX_FILE_SIZE)
    /\ extension(file.name) \in SUPPORTED_FORMATS

\* processFiles, line 970: files.filter(file => this.validateFile(file)).
validFilesOf(files) == SelectSeq(files, validateFile)

\* processFiles, line 977, negated: the batch fits.
processFilesFits(selected, valid) ==
    ~(Len(selected) + Len(valid) > maxFiles)

\* processFiles(files), lines 969-986: selectedFiles after the call.
processFilesSelected(selected, files) ==
    LET valid == validFilesOf(files)
    IN IF Len(valid) = 0 THEN selected
       ELSE IF ~processFilesFits(selected, valid) THEN selected
       ELSE selected \o valid

\* processFiles(files): the types of the notifications it shows, in order:
\* one 'danger' per file validateFile rejects, then one 'warning' when the
\* batch is refused.
processFilesShows(selected, files) ==
    LET valid == validFilesOf(files)
        dangers == [i \in 1..(Len(files) - Len(valid)) |-> "danger"]
    IN IF Len(valid) = 0 \/ ~processFilesFits(selected, valid)
       THEN Append(dangers, "warning")
       ELSE dangers

\* notificationManager.show(message, type), once per type of the list: the
\* queue after the calls.
RECURSIVE showAll(_, _)
showAll(q, types) ==
    IF types = <<>> THEN q
    ELSE LET id == generateUUID(q.ns, q.tm)
         IN showAll([ns |-> showTrack(q.ns, id, Head(types)),
                     cont |-> q.cont \cup {id},
                     tm |-> showSchedule(q.tm, id, NOTIFICATION_TIMEOUT),
                     g |-> GhostShown(q.g, id, NOTIFICATION_TIMEOUT)],
                    Tail(types))

\* handleFileSelect / handleFileDrop: processFiles(files).
ProcessFiles(files) ==
    LET shows == processFilesShows(selectedFiles, files)
        q == showAll([ns |-> notifications, cont |-> container,
                      tm |-> timers, g |-> gNotif], shows)
    IN /\ Len(notifications) + Len(shows) <= MaxWarnings
       /\ selectedFiles' = processFilesSelected(selectedFiles, files)
       /\ notifications' = q.ns
       /\ container' = q.cont
       /\ timers' = q.tm
       /\ gNotif' = q.g
       /\ gBatch' = files
       /\ UNCHANGED <<gShown, gNoop, storeVars, wsVars, postVars, themeVars,
                      presenceVars, loadVars, chatVars>>

\* removeFile(fileName), line 1038, from the remove button of a preview.
RemoveFile(name) ==
    /\ \E i \in DOMAIN selectedFiles : selectedFiles[i].name = name
    /\ selectedFiles' = SelectSeq(selectedFiles, LAMBDA f : f.name # name)
    /\ UNCHANGED <<gBatch, storeVars, notifVars, wsVars, postVars, themeVars,
                   presenceVars, loadVars, chatVars>>

\* clearAll(), line 1091.
ClearAll ==
    /\ selectedFiles # <<>>
    /\ selectedFiles' = <<>>
    /\ UNCHANGED <<gBatch, storeVars, notifVars, wsVars, postVars, themeVars,
                   presenceVars, loadVars, chatVars>>

MediaNext ==
    \/ \E files \in Batches : ProcessFiles(files)
    \/ \E f \in FilePool : RemoveFile(f.name)
    \/ ClearAll

\* A step of processFiles: it adds files or shows a notification.
Processed ==
    Len(selectedFiles') > Len(selectedFiles) \/ notifications' # notifications

\* What the claim calls invalid input.
TooLarge(file) == file.size > MAX_FILE_SIZE

Unsupported(file) == extension(file.name) \notin SUPPORTED_FORMATS

Acceptable(file) == ~TooLarge(file) /\ ~Unsupported(file)

\* C25: a file larger than MAX_FILE_SIZE or with an unsupported extension
\* is never added to selectedFiles (the files of a batch that are neither
\* are appended, in order); a batch with no valid file, or one that would
\* take selectedFiles beyond maxFiles, leaves selectedFiles unchanged and
\* shows a notification; selectedFiles never holds more than 10 files.
C25_InvalidFilesRejected ==
    [][/\ Len(selectedFiles') <= 10
       /\ \A i \in DOMAIN selectedFiles' : Acceptable(selectedFiles'[i])
       /\ Processed =>
             LET valid == SelectSeq(gBatch', Acceptable)
             IN IF valid = <<>> \/ Len(selectedFiles) + Len(valid) > 10
                THEN /\ selectedFiles' = selectedFiles
                     /\ Len(notifications') > Len(notifications)
                     /\ notifications'[Len(notifications')].type = "warning"
                     /\ notifications'[Len(notifications')].id \in container'
                ELSE selectedFiles' = selectedFiles \o valid
      ]_vars

\* Ten files are selected and a batch with a valid file has been refused.
C25_Witness ==
    /\ Len(selectedFiles) = 10
    /\ \E i \in DOMAIN gBatch : Acceptable(gBatch[i])
    /\ notifications # <<>>
    /\ notifications[Len(notifications)].type = "warning"

\* -------------------------------------------------------------- ChatManager
TYPING_TIMEOUT == 3000

\* The pauses between two events of a run.
Pauses == {1000, 2000}

ChatInit ==
    /\ typingTimeouts = [u \in {} |-> 0]
    /\ handles = 0
    /\ gTyping = [u \in {} |-> [since |-> 0, stops |-> 0]]

clearTimeoutNone(tm, handle) == tm

\* clearTimeout(handle): the timeout is dropped if it is still pending.
clearTimeout(tm, handle) ==
    SelectSeq(tm, LAMBDA t : ~(t.kind = "typingStop" /\ t.arg[2] = handle))

\* sendTypingIndicator, lines 1179-1181.
clearExisting(tm, map, userId) ==
    IF userId \in DOMAIN map THEN clearTimeout(tm, map[userId]) ELSE tm

\* Map.prototype.set and Map.prototype.delete.
MapSet(map, k, v) == [x \in DOMAIN map \cup {k} |-> IF x = k THEN v ELSE map[x]]

MapDelete(map, k) == [x \in DOMAIN map \ {k} |-> map[x]]

\* sendTypingIndicator(userId), lines 1172-1193.
SendTypingIndicator(userId) ==
    /\ handles < MaxTyping
    /\ wire' = send(ws, sockets, wire, "typing_start")
    /\ gSend' = [type |-> "typing_start", state |-> ClientState(ws, sockets),
                 raised |-> sendRaises(ws, sockets)]
    /\ handles' = handles + 1
    /\ timers' = Append(clearExisting(timers, typingTimeouts, userId),
                        Timer("typingStop", <<userId, handles'>>,
                              TYPING_TIMEOUT))
    /\ typingTimeouts' = MapSet(typingTimeouts, userId, handles')
    /\ gTyping' = MapSet(gTyping, userId, [since |-> 0, stops |-> 0])
    /\ UNCHANGED <<ws, sockets, reconnectAttempts, heartbeatInterval,
                   intervals, created, appConnects, gFails, gResetFrom, gDisc,
                   notifications, container, gNotif, gShown, gNoop,
                   storeVars, postVars, themeVars, presenceVars, mediaVars,
                   loadVars>>

\* The timeout of lines 1184-1190 runs.
TypingStopFires ==
    \E i \in DOMAIN timers :
        /\ TimerDue(timers, i)
        /\ timers[i].kind = "typingStop"
        /\ LET userId == timers[i].arg[1]
           IN /\ wire' = send(ws, sockets, wire, "typing_stop")
              /\ gSend' = [type |-> "typing_stop",
                           state |-> ClientState(ws, sockets),
                           raised |-> sendRaises(ws, sockets)]
              /\ typingTimeouts' = MapDelete(typingTimeouts, userId)
              /\ gTyping' = [gTyping EXCEPT ![userId].stops = @ + 1]
        /\ timers' = DropTimer(timers, i)
        /\ UNCHANGED <<ws, sockets, reconnectAttempts, heartbeatInterval,
                       intervals, created, appConnects, gFails, gResetFrom,
                       gDisc, handles, notifications, container, gNotif,
                       gShown, gNoop, storeVars, postVars, themeVars,
                       presenceVars, mediaVars, loadVars>>

\* Time passes, d ms, while no timeout is due earlier.
Pause(d) ==
    /\ timers # <<>>
    /\ \A i \in DOMAIN timers : timers[i].remaining >= d
    /\ timers' = [i \in DOMAIN timers |->
                     [timers[i] EXCEPT !.remaining = @ - d]]
    /\ gTyping' = [u \in DOMAIN gTyping |->
                      [gTyping[u] EXCEPT !.since =
                          IF @ + d > TYPING_TIMEOUT THEN TYPING_TIMEOUT
                          ELSE @ + d]]
    /\ UNCHANGED <<typingTimeouts, handles, notifications, container, gNotif,
                   gShown, gNoop, storeVars, wsVars, postVars, themeVars,
                   presenceVars, mediaVars, loadVars>>

\* The typing indicator of the chat, on the client as the script leaves it
\* (connect() is not called, line 1702).
ChatNext ==
    \/ \E u \in Users : SendTypingIndicator(u)
    \/ TypingStopFires
    \/ \E d \in Pauses : Pause(d)

StopTimers(tm, u) ==
    SelectSeq(tm, LAMBDA t : t.kind = "typingStop" /\ t.arg[1] = u)

\* C30: every sendTypingIndicator(u) call issues typing_start and leaves
\* one pending stop timer for u, the one typingTimeouts holds, due
\* TYPING_TIMEOUT later; typing_stop for u is issued only when
\* TYPING_TIMEOUT has elapsed since the last call for u, at most once per
\* burst and exactly once when that time has elapsed, and typingTimeouts
\* has no entry for u after that.
C30_OneStopPerBurst ==
    [][\A u \in Users :
          /\ Len(StopTimers(timers', u)) <= 1
          /\ u \in DOMAIN typingTimeouts' <=> Len(StopTimers(timers', u)) = 1
          /\ u \in DOMAIN typingTimeouts' =>
                StopTimers(timers', u)[1].arg[2] = typingTimeouts'[u]
          /\ (u \in DOMAIN typingTimeouts' /\
                (u \notin DOMAIN typingTimeouts
                   \/ typingTimeouts'[u] # typingTimeouts[u])) =>
                /\ gSend'.type = "typing_start"
                /\ StopTimers(timers', u)[1].remaining = TYPING_TIMEOUT
          /\ u \in DOMAIN gTyping' =>
                /\ gTyping'[u].stops <= 1
                /\ StopTimers(timers', u) # <<>> =>
                      /\ gTyping'[u].stops = 0
                      /\ StopTimers(timers', u)[1].remaining =
                             TYPING_TIMEOUT - gTyping'[u].since
                /\ (u \in DOMAIN gTyping /\
                      gTyping'[u].stops > gTyping[u].stops) =>
                      /\ gTyping[u].since = TYPING_TIMEOUT
                      /\ gSend'.type = "typing_stop"
                      /\ u \notin DOMAIN typingTimeouts'
                /\ StopTimers(timers', u) = <<>> =>
                      /\ gTyping'[u].stops = 1
                      /\ gTyping'[u].since = TYPING_TIMEOUT
      ]_vars

\* A burst of two calls for one user, less than TYPING_TIMEOUT apart, has
\* ended: typing_stop was issued once, while the timer of another user is
\* still pending.
C30_Witness ==
    \E u, v \in Users :
        /\ u # v
        /\ handles = 3
        /\ u \in DOMAIN gTyping
        /\ gTyping[u].stops = 1
        /\ u \notin DOMAIN typingTimeouts
        /\ v \in DOMAIN typingTimeouts
        /\ typingTimeouts[v] = 3
        /\ gSend.type = "typing_stop"

Init ==
    /\ StoreInit /\ NotifInit /\ WsInit /\ PostInit
    /\ ThemeInit /\ PresenceInit /\ MediaInit /\ LoadInit /\ ChatInit

SpecWs == Init /\ [][WsNext]_vars

SpecPage == Init /\ [][PageNext]_vars

SpecInbound == Init /\ [][InboundNext]_vars

SpecMedia == Init /\ [][MediaNext]_vars

SpecChat == Init /\ [][ChatNext]_vars

SpecWsAny == Init /\ [][WsAnyNext]_vars

SpecSend == Init /\ [][SendNext]_vars

SpecPost == Init /\ [][PostNext]_vars

SpecPostShared == Init /\ [][PostSharedNext]_vars

SpecRequests == Init /\ [][RequestsNext]_vars

SpecNotif == Init /\ [][NotifNext]_vars

SpecToasts == Init /\ [][ToastsNext]_vars

SpecStore == Init /\ [][StoreNext]_vars

SpecStoreThrow == Init /\ [][StoreThrowNext]_vars

====
